---- MODULE Spec2Model ----
(***************************************************************************)
(* A model of mp3-joiner: the merge engine, smart_merge_mp3_files          *)
(* (src/tools/utils.py) with the Merge class (src/tools/merge_utils.py),   *)
(* and, each under a specification of its own, the filename sanitizer,     *)
(* saving_files, create_zip, the /merge handler (src/app.py), the          *)
(* decorator that guards it (src/tools/security.py), the rate limiter      *)
(* (src/tools/limits.py), validate_merge_request                           *)
(* (src/tools/validation.py) and the token reload of IPGeoTokenManager     *)
(* (src/tools/api_auth.py).                                                *)
(*                                                                         *)
(* A path is the sequence of the pieces that os.path.join and the         *)
(* f-strings put together, so "normalized_" + basename is a concatenation  *)
(* of sequences; None, where a path is expected, is the empty sequence     *)
(* (both are false in "if result:"). Python's 0-based positions are        *)
(* 1-based here: position i of the model is index i-1 of the code.         *)
(***************************************************************************)
EXTENDS Integers, Sequences, FiniteSets, TLC

\* ------------------------------------------------------------------ bounds

\* The longest list of uploaded files a request carries in the model.
MaxFiles == 3

\* ------------------------------------------------------------- data model

None == "None"

\* None where a path is expected.
NoPath == << >>

\* Base names the sanitizer left in the upload folder.
Names == {<<"a.mp3">>, <<"b.mp3">>}

UploadDir == "mp3_up"
MergedDir == "mp3_merged"

Sep == "/"

\* os.path.join(folder, name)
Join(folder, name) == <<folder, Sep>> \o name

\* The place of the last separator of a path, 0 if it has none.
LastSep(path) ==
    LET S == { i \in 1..Len(path) : path[i] = Sep }
    IN  IF S = {} THEN 0 ELSE CHOOSE i \in S : \A j \in S : j <= i

\* os.path.basename(path)
Basename(path) == SubSeq(path, LastSep(path) + 1, Len(path))

\* What MP3(file_path) gives: the (bitrate, sample_rate, channels) of the
\* header, or an error when the file is missing or has no MP3 header.
Headers ==
    { <<"192000", "44100", "2">>, <<"128000", "44100", "2">>,
      <<"192000", "48000", "2">>, <<"192000", "44100", "1">> }

HeaderError == <<"HeaderNotFoundError">>

HeaderReads == Headers \cup {HeaderError}

NoneParams == <<None, None, None>>

\* Merge._get_mp3_params: the header's triple, (None, None, None) on any error.
GetMp3Params(read) == IF read = HeaderError THEN NoneParams ELSE read

\* The mutant of AllParamsEqual that compares the bitrates only.
AllParamsEqualBitrate(ps) == \A i \in 1..Len(ps) : ps[i][1] = ps[1][1]

\* Merge.all_params_equal, line 42: all(p == params[0] for p in params).
AllParamsEqual(ps) == \A i \in 1..Len(ps) : ps[i] = ps[1]

\* File contents, as byte sequences.
Datas == { <<>>, <<1>>, <<2, 3>> }

\* A file of the upload folder as the byte concatenator finds it: absent
\* (os.path.isfile is false), or present with its bytes.
MissingFile == [exists |-> FALSE, data |-> <<>>]

FileStates == {MissingFile} \cup { [exists |-> TRUE, data |-> d] : d \in Datas }

Min(a, b) == IF a <= b THEN a ELSE b

\* in_f.read(1024 * 1024)
ChunkSize == 1024 * 1024

\* merge_files_in_groups, lines 130-135: the chunks of one input file appended
\* to the output until read() returns an empty chunk.
RECURSIVE CopyChunks(_, _, _)
CopyChunks(data, pos, written) ==
    LET chunk == SubSeq(data, pos + 1, Min(pos + ChunkSize, Len(data)))
    IN  IF chunk = << >> THEN written
        ELSE CopyChunks(data, pos + Len(chunk), written \o chunk)

\* f"merged_{idx}.mp3"
MergedName(i) == <<"merged_", ToString(i), ".mp3">>

\* range(0, len(file_list), group_size) with enumerate(..., start=1): the
\* start of group i.
GroupStart(i, g) == (i - 1) * g

\* The mutant of Group whose slice ends one member early
\* (file_list[start : start + group_size - 1]).
GroupOneShort(list, start, g) == SubSeq(list, start + 1, Min(start + g - 1, Len(list)))

\* file_list[start : start + group_size]
Group(list, start, g) == SubSeq(list, start + 1, Min(start + g, Len(list)))

\* Outcomes of one subprocess.run of the transcoder: exit code 0, a nonzero
\* exit code, or the call itself raising (OSError, ValueError).
RcOk == "ok"
RcFail == "nonzero"
RcExc == "raised"
Outcomes == {RcOk, RcFail, RcExc}

\* All sequences over S of length at most n.
SeqsUpTo(S, n) == UNION { [1..k -> S] : k \in 0..n }

\* ------------------------------------------------------------------ state

VARIABLES
    files,            \* smart_merge_mp3_files: file_paths
    group_size,       \* smart_merge_mp3_files: files_count
    pc,               \* where the call is
    calls,            \* the Merge functions smart_merge has called, in order
    params,           \* all_params_equal: params (empty outside the probe)
    equal,            \* what all_params_equal returned (FALSE before the probe)
    disk,             \* the upload folder as the byte concatenator reads it
    file_list,        \* the concatenator's file_list argument
    idx,              \* the concatenator's group counter (enumerate, start=1)
    merged_paths,     \* the concatenator's merged_paths
    out,              \* the files written to the merged folder: path -> bytes
    futures,          \* normalize_mp3_file_parallel: futures
    yielded,          \* the futures as_completed has handed to the loop
    normalized_files, \* normalize_mp3_file_parallel: normalized_files
    manifests,        \* the temporary manifest files on disk, each by its lines
    group_rc,         \* the transcoder's outcome for each group so far
    raised_in,        \* the function an exception left, None if none
    result            \* what smart_merge_mp3_files returned (empty before)

mergeVars ==
    << files, group_size, pc, calls, params, equal, disk, file_list, idx,
       merged_paths, out, futures, yielded, normalized_files, manifests,
       group_rc, raised_in, result >>

\* The other components of the repository are modelled each by its own
\* variables and its own specification; while one component runs, the
\* variables of the others rest at their idle values.
VARIABLES
    raw,              \* normalize_filename: the filename argument
    name_pc,          \* how many times the sanitizer has been applied
    once,             \* normalize_filename(raw)
    twice             \* normalize_filename(normalize_filename(raw))

nameVars == << raw, name_pc, once, twice >>

VARIABLES
    uploads,          \* saving_files: the filename of each file of files
    save_pc,          \* where the call of saving_files is
    file_paths,       \* saving_files: file_paths
    upload_dir        \* the upload folder: <<path, k>> when upload k was saved last to path

saveVars == << uploads, save_pc, file_paths, upload_dir >>

VARIABLES
    zip_files,        \* create_zip: merged_files
    on_disk,          \* the paths for which os.path.isfile is true
    zip_pc,           \* where the call of create_zip is
    zip_pos,          \* how many members of merged_files the loop has passed
    archive_exists,   \* whether merged_files.zip is in the merged folder
    entries,          \* the names of the archive's entries, in order
    zip_result        \* the path create_zip returned (empty before)

zipVars ==
    << zip_files, on_disk, zip_pc, zip_pos, archive_exists, entries, zip_result >>

VARIABLES
    req_pc,           \* where the /merge request is
    n_uploads,        \* merge_files: len(files)
    count,            \* merge_files: count
    oversized,        \* for each saved file, whether getsize exceeds max_bytes
    temp_dirs,        \* the temporary directories of the request that exist
    req_calls,        \* the functions of tools.utils the handler has called
    merged_count,     \* merge_files: len(merged_files)
    cleanup_set,      \* whether cleanup was registered with after_this_request
    status            \* the status code of the response (none before)

reqVars ==
    << req_pc, n_uploads, count, oversized, temp_dirs, req_calls, merged_count,
       cleanup_set, status >>

VARIABLES
    token_manager,    \* the decorator's token_manager: none, or its configuration
    allowed_origin,   \* the decorator's allowed_origin (empty for None)
    host,             \* request.host
    authorization,    \* the Authorization header (empty if absent)
    origin,           \* the Origin header (empty if absent)
    referer,          \* the Referer header (empty if absent)
    form_csrf,        \* the form field csrf_token ("" if absent)
    header_csrf,      \* the X-CSRF-Token header ("" if absent)
    session_csrf,     \* session["csrf_token"] ("" if absent)
    auth_pc,          \* whether the wrapper has run
    invoked,          \* whether the wrapped handler was called
    auth_status       \* the status the wrapper itself answered with (none if none)

authVars ==
    << token_manager, allowed_origin, host, authorization, origin, referer,
       form_csrf, header_csrf, session_csrf, auth_pc, invoked, auth_status >>

VARIABLES
    window,           \* RateLimiter.window
    max_req,          \* RateLimiter.max_req
    clock,            \* time.monotonic()
    bucket,           \* RateLimiter.bucket: key -> the timestamps of its deque
    admitted,         \* for each key, the times of the calls that returned True
    last_key,         \* the key of the last call of check that returned
    last_ret,         \* what that call returned (none before the first)
    th                \* for each thread inside check(): its position, key and now

limVars == << window, max_req, clock, bucket, admitted, last_key, last_ret, th >>

VARIABLES
    multipart,        \* whether req.mimetype is multipart/form-data
    raw_files,        \* req.files.getlist("files")
    form_count,       \* req.form.get("count", type=int), in a tuple; empty for None
    max_files,        \* validate_merge_request: max_files
    max_bytes,        \* max_per_file_mb * 1024 * 1024
    ffmpeg_available, \* validate_merge_request: ffmpeg_available
    valid_pc,         \* whether validate_merge_request has returned
    validation        \* the ValidationResult, each field in a tuple; empty for None

validVars ==
    << multipart, raw_files, form_count, max_files, max_bytes, ffmpeg_available,
       valid_pc, validation >>

VARIABLES
    token_file,       \* IPGeoTokenManager.token_file ("" if none is configured)
    tokens_required,  \* IPGeoTokenManager.tokens_required
    allowed_tokens,   \* IPGeoTokenManager.allowed_tokens
    tokens_mtime,     \* IPGeoTokenManager._tokens_mtime, in a tuple; empty for None
    file_lines,       \* the lines of the token file on disk
    file_mtime,       \* the st_mtime of the token file
    file_state,       \* ok, or why reading the file fails
    reload_outcome    \* how the last reload_tokens ended ("" if none is the last step)

tokVars ==
    << token_file, tokens_required, allowed_tokens, tokens_mtime, file_lines,
       file_mtime, file_state, reload_outcome >>

vars ==
    << mergeVars, nameVars, saveVars, zipVars, reqVars, authVars, limVars, validVars,
       tokVars >>

NoDisk == << >>
NoOut == << >>

MergeIdle ==
    /\ files = << >>
    /\ group_size = 1
    /\ pc = "idle"
    /\ calls = << >>
    /\ params = << >>
    /\ equal = FALSE
    /\ disk = NoDisk
    /\ file_list = << >>
    /\ idx = 0
    /\ merged_paths = << >>
    /\ out = NoOut
    /\ futures = << >>
    /\ yielded = {}
    /\ normalized_files = << >>
    /\ manifests = {}
    /\ group_rc = << >>
    /\ raised_in = None
    /\ result = << >>

NameIdle ==
    /\ raw = << >>
    /\ name_pc = "idle"
    /\ once = << >>
    /\ twice = << >>

SaveIdle ==
    /\ uploads = << >>
    /\ save_pc = "idle"
    /\ file_paths = << >>
    /\ upload_dir = {}

ZipIdle ==
    /\ zip_files = << >>
    /\ on_disk = {}
    /\ zip_pc = "idle"
    /\ zip_pos = 0
    /\ archive_exists = FALSE
    /\ entries = << >>
    /\ zip_result = NoPath

ReqIdle ==
    /\ req_pc = "idle"
    /\ n_uploads = 0
    /\ count = 0
    /\ oversized = << >>
    /\ temp_dirs = {}
    /\ req_calls = << >>
    /\ merged_count = 0
    /\ cleanup_set = FALSE
    /\ status = "none"

AuthIdle ==
    /\ token_manager = "idle"
    /\ allowed_origin = << >>
    /\ host = ""
    /\ authorization = << >>
    /\ origin = << >>
    /\ referer = << >>
    /\ form_csrf = ""
    /\ header_csrf = ""
    /\ session_csrf = ""
    /\ auth_pc = "idle"
    /\ invoked = FALSE
    /\ auth_status = "none"

LimIdle ==
    /\ window = 0
    /\ max_req = 0
    /\ clock = 0
    /\ bucket = << >>
    /\ admitted = << >>
    /\ last_key = ""
    /\ last_ret = "none"
    /\ th = << >>

NoResult == [files |-> << >>, count |-> << >>, error_response |-> << >>, status_code |-> << >>]

ValidIdle ==
    /\ multipart = FALSE
    /\ raw_files = << >>
    /\ form_count = << >>
    /\ max_files = 0
    /\ max_bytes = 0
    /\ ffmpeg_available = FALSE
    /\ valid_pc = "idle"
    /\ validation = NoResult

TokIdle ==
    /\ token_file = ""
    /\ tokens_required = FALSE
    /\ allowed_tokens = {}
    /\ tokens_mtime = << >>
    /\ file_lines = << >>
    /\ file_mtime = 0
    /\ file_state = "missing"
    /\ reload_outcome = ""

\* Every component but c is idle.
IdleBut(c) ==
    /\ IF c = "merge" THEN TRUE ELSE MergeIdle
    /\ IF c = "name" THEN TRUE ELSE NameIdle
    /\ IF c = "save" THEN TRUE ELSE SaveIdle
    /\ IF c = "zip" THEN TRUE ELSE ZipIdle
    /\ IF c = "req" THEN TRUE ELSE ReqIdle
    /\ IF c = "auth" THEN TRUE ELSE AuthIdle
    /\ IF c = "limit" THEN TRUE ELSE LimIdle
    /\ IF c = "valid" THEN TRUE ELSE ValidIdle
    /\ IF c = "tokens" THEN TRUE ELSE TokIdle

\* No component but c moves.
OnlyMoves(c) ==
    /\ IF c = "merge" THEN TRUE ELSE UNCHANGED mergeVars
    /\ IF c = "name" THEN TRUE ELSE UNCHANGED nameVars
    /\ IF c = "save" THEN TRUE ELSE UNCHANGED saveVars
    /\ IF c = "zip" THEN TRUE ELSE UNCHANGED zipVars
    /\ IF c = "req" THEN TRUE ELSE UNCHANGED reqVars
    /\ IF c = "auth" THEN TRUE ELSE UNCHANGED authVars
    /\ IF c = "limit" THEN TRUE ELSE UNCHANGED limVars
    /\ IF c = "valid" THEN TRUE ELSE UNCHANGED validVars
    /\ IF c = "tokens" THEN TRUE ELSE UNCHANGED tokVars

Init ==
    /\ files \in { [i \in 1..Len(s) |-> Join(UploadDir, s[i])] : s \in SeqsUpTo(Names, MaxFiles) }
    /\ group_size \in 1..MaxFiles
    /\ pc = "start"
    /\ calls = << >>
    /\ params = << >>
    /\ equal = FALSE
    /\ disk = NoDisk
    /\ file_list = << >>
    /\ idx = 0
    /\ merged_paths = << >>
    /\ out = NoOut
    /\ futures = << >>
    /\ yielded = {}
    /\ normalized_files = << >>
    /\ manifests = {}
    /\ group_rc = << >>
    /\ raised_in = None
    /\ result = << >>
    /\ IdleBut("merge")

\* ---------------------------------------------------------------- the probe

\* smart_merge_mp3_files, line 60: Merge.all_params_equal(file_paths).
\* The header of every file is read once (line 41), then compared (line 42).
Probe ==
    /\ pc = "start"
    /\ \E hdr \in [Names -> HeaderReads] :
         /\ params' = [i \in 1..Len(files) |-> GetMp3Params(hdr[Basename(files[i])])]
         /\ equal' = AllParamsEqual(params')
    /\ calls' = Append(calls, "all_params_equal")
    /\ pc' = "probed"
    /\ UNCHANGED << files, group_size, disk, file_list, idx, merged_paths, out,
                    futures, yielded, normalized_files, manifests, group_rc,
                    raised_in, result >>
    /\ OnlyMoves("merge")

\* ------------------------------------------------------ the byte concatenator

\* What the files of the list are on disk agrees with what the probe read of
\* them: a file whose header was read exists.
AgreesWithProbe(d) ==
    /\ \A i \in 1..Len(files) :
         params[i] # NoneParams => d[Basename(files[i])].exists
    /\ \A n \in Names :
         (\A i \in 1..Len(files) : Basename(files[i]) # n) => d[n] = MissingFile

\* What the copy of a group gives: the bytes written to the output, and
\* whether an open() raised on the way.
Copied(written) == [raised |-> FALSE, written |-> written]

CopyRaised(written) == [raised |-> TRUE, written |-> written]

\* The mutant of GroupBytes that stops at the first member that is no file
\* (break where the code has continue).
RECURSIVE GroupBytesBreak(_, _, _)
GroupBytesBreak(group, d, written) ==
    IF group = << >> THEN Copied(written)
    ELSE LET f == d[Basename(Head(group))]
         IN  IF ~f.exists
             THEN Copied(written)
             ELSE GroupBytesBreak(Tail(group), d, CopyChunks(f.data, 0, written))

\* merge_files_in_groups, lines 126-135: the members of one group copied to
\* its output. A member that is no file is skipped (lines 127-129); open() of
\* line 130 raises FileNotFoundError on a path that does not exist.
RECURSIVE GroupBytes(_, _, _)
GroupBytes(group, d, written) ==
    IF group = << >> THEN Copied(written)
    ELSE LET f == d[Basename(Head(group))]
             isfile == f.exists
         IN  IF ~isfile
             THEN GroupBytes(Tail(group), d, written)
             ELSE IF ~f.exists
                  THEN CopyRaised(written)
                  ELSE GroupBytes(Tail(group), d, CopyChunks(f.data, 0, written))

\* smart_merge_mp3_files, line 61: the fast path calls
\* Merge.merge_files_in_groups(file_paths, files_count, merged_folder);
\* lines 120-121 of merge_utils.py.
CallByteConcat ==
    /\ pc = "probed"
    /\ equal
    /\ \E d \in [Names -> FileStates] : AgreesWithProbe(d) /\ disk' = d
    /\ file_list' = files
    /\ idx' = 1
    /\ merged_paths' = << >>
    /\ params' = << >>
    /\ calls' = Append(calls, "merge_files_in_groups")
    /\ pc' = "bytes"
    /\ UNCHANGED << files, group_size, equal, out, futures, yielded,
                    normalized_files, manifests, group_rc, raised_in, result >>
    /\ OnlyMoves("merge")

\* merge_files_in_groups, lines 122-136: one iteration of the loop over groups.
MergeGroupBytes ==
    /\ pc = "bytes"
    /\ GroupStart(idx, group_size) < Len(file_list)
    /\ LET group == Group(file_list, GroupStart(idx, group_size), group_size)
           output_path == Join(MergedDir, MergedName(idx))
           copy == GroupBytes(group, disk, << >>)
       IN  /\ out' = (output_path :> copy.written) @@ out
           /\ IF copy.raised
              THEN /\ pc' = "raised"
                   /\ raised_in' = "merge_files_in_groups"
                   /\ UNCHANGED << merged_paths, idx >>
              ELSE /\ merged_paths' = Append(merged_paths, output_path)
                   /\ idx' = idx + 1
                   /\ UNCHANGED << pc, raised_in >>
    /\ UNCHANGED << files, group_size, calls, params, equal, disk, file_list,
                    futures, yielded, normalized_files, manifests, group_rc,
                    result >>
    /\ OnlyMoves("merge")

\* The mutant of ReturnBytes in which line 61 does not return: the call falls
\* through to the normalizer of line 62.
ReturnBytesFallThrough ==
    /\ pc = "bytes"
    /\ GroupStart(idx, group_size) >= Len(file_list)
    /\ normalized_files' = [i \in 1..Len(files) |-> NoPath]
    /\ futures' =
          [i \in 1..Len(files) |->
              [args |-> <<files[i], i>>, state |-> "pending", value |-> <<i, NoPath>>]]
    /\ yielded' = {}
    /\ calls' = Append(calls, "normalize_mp3_file_parallel")
    /\ pc' = "normalize"
    /\ UNCHANGED << files, group_size, params, equal, disk, file_list, idx,
                    merged_paths, out, manifests, group_rc, raised_in, result >>
    /\ OnlyMoves("merge")

\* merge_files_in_groups, line 137, and the return of line 61.
ReturnBytes ==
    /\ pc = "bytes"
    /\ GroupStart(idx, group_size) >= Len(file_list)
    /\ result' = merged_paths
    /\ pc' = "done"
    /\ UNCHANGED << files, group_size, calls, params, equal, disk, file_list, idx,
                    merged_paths, out, futures, yielded, normalized_files,
                    manifests, group_rc, raised_in >>
    /\ OnlyMoves("merge")

\* ----------------------------------------------------------- the normalizer

\* normalize_one, line 73
NormalizedPath(file_path) == Join(MergedDir, <<"normalized_">> \o Basename(file_path))

\* normalize_one, lines 89-93: what the worker returns when subprocess.run
\* returned with outcome rc.
NormalizeOneValue(file_path, i, rc) ==
    IF rc # RcOk THEN <<i, NoPath>> ELSE <<i, NormalizedPath(file_path)>>

\* executor.submit(normalize_one, file_path, idx), line 96
Submitted(file_path, i) ==
    [args |-> <<file_path, i>>, state |-> "pending", value |-> <<i, NoPath>>]

\* The mutant of StoreResult that stores results in the order they arrive
\* (an append to the list, whatever idx says).
StoreResultInArrivalOrder(list, i, value) ==
    LET free == { j \in 1..Len(list) : list[j] = NoPath }
    IN  [list EXCEPT ![CHOOSE j \in free : \A h \in free : j <= h] = value]

\* line 100: normalized_files[idx] = result
StoreResult(list, i, value) == [list EXCEPT ![i] = value]

\* smart_merge_mp3_files, line 62: the slow path calls
\* Merge.normalize_mp3_file_parallel(file_paths, merged_folder); lines 69-70
\* and the submissions of line 96.
CallNormalize ==
    /\ pc = "probed"
    /\ ~equal
    /\ normalized_files' = [i \in 1..Len(files) |-> NoPath]
    /\ futures' = [i \in 1..Len(files) |-> Submitted(files[i], i)]
    /\ yielded' = {}
    /\ params' = << >>
    /\ calls' = Append(calls, "normalize_mp3_file_parallel")
    /\ pc' = "normalize"
    /\ UNCHANGED << files, group_size, equal, disk, file_list, idx, merged_paths,
                    out, manifests, group_rc, raised_in, result >>
    /\ OnlyMoves("merge")

\* normalize_one, lines 72-93, run by a pool thread: future k finishes, with
\* the worker's return value or with the exception subprocess.run raised.
\* Workers keep running while the executor is shut down (wait=True).
NormalizeOne(k) ==
    /\ pc \in {"normalize", "shutdown"}
    /\ k \in 1..Len(futures)
    /\ futures[k].state = "pending"
    /\ \E rc \in Outcomes :
         LET file_path == futures[k].args[1]
             i == futures[k].args[2]
         IN  futures' =
                 [futures EXCEPT ![k] =
                     IF rc = RcExc
                     THEN [@ EXCEPT !.state = "raised"]
                     ELSE [@ EXCEPT !.state = "returned",
                                    !.value = NormalizeOneValue(file_path, i, rc)]]
    /\ UNCHANGED << files, group_size, pc, calls, params, equal, disk, file_list,
                    idx, merged_paths, out, yielded, normalized_files, manifests,
                    group_rc, raised_in, result >>
    /\ OnlyMoves("merge")

\* Lines 97-102: as_completed hands a finished future to the loop;
\* future.result() returns the worker's (idx, result) or raises its exception,
\* which leaves the loop and the with block.
Collect(k) ==
    /\ pc = "normalize"
    /\ k \in 1..Len(futures)
    /\ k \notin yielded
    /\ futures[k].state # "pending"
    /\ yielded' = yielded \cup {k}
    /\ IF futures[k].state = "raised"
       THEN /\ pc' = "shutdown"
            /\ raised_in' = "normalize_mp3_file_parallel"
            /\ UNCHANGED normalized_files
       ELSE /\ normalized_files' =
                   IF futures[k].value[2] # NoPath
                   THEN StoreResult(normalized_files, futures[k].value[1], futures[k].value[2])
                   ELSE normalized_files
            /\ UNCHANGED << pc, raised_in >>
    /\ UNCHANGED << files, group_size, calls, params, equal, disk, file_list, idx,
                    merged_paths, out, futures, manifests, group_rc, result >>
    /\ OnlyMoves("merge")

\* The with block of line 95 left by an exception: ThreadPoolExecutor.__exit__
\* waits for every worker, then the exception leaves
\* normalize_mp3_file_parallel and smart_merge_mp3_files, which has no handler.
RaiseFromNormalize ==
    /\ pc = "shutdown"
    /\ \A k \in 1..Len(futures) : futures[k].state # "pending"
    /\ pc' = "raised"
    /\ UNCHANGED << files, group_size, calls, params, equal, disk, file_list, idx,
                    merged_paths, out, futures, yielded, normalized_files,
                    manifests, group_rc, raised_in, result >>
    /\ OnlyMoves("merge")

\* ---------------------------------------------- the transcoder concatenator

\* str(path) in an f-string: a None member is written as the word None.
PathStr(path) == IF path = NoPath THEN <<"None">> ELSE path

\* Lines 150-152: the lines of the manifest of one group.
ManifestLines(group) ==
    [j \in 1..Len(group) |-> <<"file '">> \o PathStr(group[j]) \o <<"'">>]

\* Line 153: f.name of the NamedTemporaryFile of group i (a fresh name each time).
ListPath(i) == <<"tmp", Sep, "list_", ToString(i)>>

\* The mutant of ConcatOutputPath that numbers the outputs by a counter of the
\* successes so far.
ConcatOutputPathDense(i, merged) == Join(MergedDir, MergedName(Len(merged) + 1))

\* Line 149: output_path of group i.
ConcatOutputPath(i, merged) == Join(MergedDir, MergedName(i))

\* The mutant of MergedAfter without the continue of line 159: the output of a
\* failed group is listed too.
MergedAfterNoContinue(merged, output_path, rc) ==
    IF rc = RcExc THEN merged ELSE Append(merged, output_path)

\* Lines 157-160: merged_paths after the transcoder ended with outcome rc.
MergedAfter(merged, output_path, rc) ==
    IF rc # RcOk THEN merged ELSE Append(merged, output_path)

\* The mutant of CallConcat that goes on as soon as one result has been
\* collected, while other workers may still run.
CallConcatEarly ==
    /\ pc = "normalize"
    /\ yielded # {}
    /\ file_list' = normalized_files
    /\ idx' = 1
    /\ merged_paths' = << >>
    /\ group_rc' = << >>
    /\ futures' = << >>
    /\ yielded' = {}
    /\ calls' = Append(calls, "merge_mp3_groups_ffmpeg")
    /\ pc' = "concat"
    /\ UNCHANGED << files, group_size, params, equal, disk, out,
                    normalized_files, manifests, raised_in, result >>
    /\ OnlyMoves("merge")

\* The loop of lines 97-102 is over and the with block left (lines 103-108):
\* normalize_mp3_file_parallel returns normalized_files, and line 63 of
\* utils.py hands it to Merge.merge_mp3_groups_ffmpeg (lines 145-146).
CallConcat ==
    /\ pc = "normalize"
    /\ yielded = 1..Len(futures)
    /\ file_list' = normalized_files
    /\ idx' = 1
    /\ merged_paths' = << >>
    /\ group_rc' = << >>
    /\ futures' = << >>
    /\ yielded' = {}
    /\ calls' = Append(calls, "merge_mp3_groups_ffmpeg")
    /\ pc' = "concat"
    /\ UNCHANGED << files, group_size, params, equal, disk, out,
                    normalized_files, manifests, raised_in, result >>
    /\ OnlyMoves("merge")

\* merge_mp3_groups_ffmpeg, lines 147-153: the next group and its manifest.
WriteManifest ==
    /\ pc = "concat"
    /\ GroupStart(idx, group_size) < Len(file_list)
    /\ LET group == Group(file_list, GroupStart(idx, group_size), group_size)
       IN  manifests' =
               manifests \cup {[path |-> ListPath(idx), lines |-> ManifestLines(group)]}
    /\ pc' = "ffmpeg"
    /\ UNCHANGED << files, group_size, calls, params, equal, disk, file_list, idx,
                    merged_paths, out, futures, yielded, normalized_files,
                    group_rc, raised_in, result >>
    /\ OnlyMoves("merge")

\* The mutant of RunConcat that runs the transcoder again on a group for which
\* it exited nonzero.
RunConcatRetry ==
    /\ pc = "ffmpeg"
    /\ \E rc \in Outcomes :
         /\ group_rc' = Append(group_rc, rc)
         /\ merged_paths' =
                MergedAfter(merged_paths, ConcatOutputPath(idx, merged_paths), rc)
         /\ IF rc = RcExc
            THEN /\ pc' = "raised"
                 /\ raised_in' = "merge_mp3_groups_ffmpeg"
                 /\ UNCHANGED idx
            ELSE /\ pc' = IF rc = RcFail THEN "ffmpeg" ELSE "concat"
                 /\ idx' = IF rc = RcFail THEN idx ELSE idx + 1
                 /\ UNCHANGED raised_in
         /\ manifests' = IF rc = RcFail THEN manifests
                         ELSE { m \in manifests : m.path # ListPath(idx) }
    /\ UNCHANGED << files, group_size, calls, params, equal, disk, file_list,
                    out, futures, yielded, normalized_files, result >>
    /\ OnlyMoves("merge")

\* The mutant of RunConcat without the finally clause: the manifest is removed
\* only when the transcoder returned.
RunConcatNoFinally ==
    /\ pc = "ffmpeg"
    /\ \E rc \in Outcomes :
         /\ group_rc' = Append(group_rc, rc)
         /\ merged_paths' =
                MergedAfter(merged_paths, ConcatOutputPath(idx, merged_paths), rc)
         /\ IF rc = RcExc
            THEN /\ pc' = "raised"
                 /\ raised_in' = "merge_mp3_groups_ffmpeg"
                 /\ UNCHANGED << idx, manifests >>
            ELSE /\ pc' = "concat"
                 /\ idx' = idx + 1
                 /\ manifests' = { m \in manifests : m.path # ListPath(idx) }
                 /\ UNCHANGED raised_in
    /\ UNCHANGED << files, group_size, calls, params, equal, disk, file_list,
                    out, futures, yielded, normalized_files, result >>
    /\ OnlyMoves("merge")

\* merge_mp3_groups_ffmpeg, lines 154-162: the transcoder runs on the manifest;
\* the finally clause removes the manifest on every way out of the try block.
\* (The transcoder's own output files are not tracked in out.)
RunConcat ==
    /\ pc = "ffmpeg"
    /\ \E rc \in Outcomes :
         /\ group_rc' = Append(group_rc, rc)
         /\ merged_paths' =
                MergedAfter(merged_paths, ConcatOutputPath(idx, merged_paths), rc)
         /\ IF rc = RcExc
            THEN /\ pc' = "raised"
                 /\ raised_in' = "merge_mp3_groups_ffmpeg"
                 /\ UNCHANGED idx
            ELSE /\ pc' = "concat"
                 /\ idx' = idx + 1
                 /\ UNCHANGED raised_in
    /\ manifests' = { m \in manifests : m.path # ListPath(idx) }
    /\ UNCHANGED << files, group_size, calls, params, equal, disk, file_list,
                    out, futures, yielded, normalized_files, result >>
    /\ OnlyMoves("merge")

\* merge_mp3_groups_ffmpeg, line 163, and the return of line 63.
ReturnConcat ==
    /\ pc = "concat"
    /\ GroupStart(idx, group_size) >= Len(file_list)
    /\ result' = merged_paths
    /\ pc' = "done"
    /\ UNCHANGED << files, group_size, calls, params, equal, disk, file_list, idx,
                    merged_paths, out, futures, yielded, normalized_files,
                    manifests, group_rc, raised_in >>
    /\ OnlyMoves("merge")

Next ==
    \/ Probe
    \/ CallByteConcat
    \/ MergeGroupBytes
    \/ ReturnBytes
    \/ CallNormalize
    \/ \E k \in 1..MaxFiles : NormalizeOne(k)
    \/ \E k \in 1..MaxFiles : Collect(k)
    \/ RaiseFromNormalize
    \/ CallConcat
    \/ WriteManifest
    \/ RunConcat
    \/ ReturnConcat

Spec == Init /\ [][Next]_vars

\* ------------------------------------------------------ the filename sanitizer

\* The longest filename the sanitizer is given in the model.
MaxNameLen == 5

\* Code points outside ASCII are written by their names: the conjoining jamo
\* U+1100 (HANGUL CHOSEONG KIYEOK) and U+1161 (HANGUL JUNGSEONG A), and the
\* syllable U+AC00 (HANGUL SYLLABLE GA) that the composed forms make of the two.
HangulL == "U+1100"
HangulV == "U+1161"
HangulLV == "U+AC00"

Space == " "

\* The characters of a filename: a letter, a dot, an underscore, a hyphen,
\* whitespace, a path separator and the two jamo.
Chars == {"a", ".", "_", "-", Space, "/", HangulL, HangulV}

\* \w with re.UNICODE: letters, digits and the underscore.
WordChars == {"a", "_", HangulL, HangulV, HangulLV}

\* [A-Za-z0-9]
AsciiAlnum == {"a"}

\* unicodedata.normalize("NFKC", filename), line 49: canonical composition
\* joins a leading consonant and the vowel that directly follows it into one
\* syllable; every other character of Chars is its own normal form.
RECURSIVE Nfkc(_)
Nfkc(s) ==
    IF Len(s) < 2 THEN s
    ELSE IF s[1] = HangulL /\ s[2] = HangulV
         THEN <<HangulLV>> \o Nfkc(SubSeq(s, 3, Len(s)))
         ELSE <<s[1]>> \o Nfkc(Tail(s))

\* re.sub(r"[^\w\s.-]", "", filename), line 50.
RemoveUnsafe(s) ==
    SelectSeq(s, LAMBDA c : c \in WordChars \/ c = Space \/ c = "." \/ c = "-")

\* The length of the run of characters of S that s begins with.
RECURSIVE RunLen(_, _)
RunLen(s, S) == IF s # << >> /\ s[1] \in S THEN 1 + RunLen(Tail(s), S) ELSE 0

\* The length of the run of characters of S that s ends with.
RECURSIVE TrailingRun(_, _)
TrailingRun(s, S) ==
    IF s # << >> /\ s[Len(s)] \in S
    THEN 1 + TrailingRun(SubSeq(s, 1, Len(s) - 1), S)
    ELSE 0

DropLeading(s, S) == SubSeq(s, RunLen(s, S) + 1, Len(s))

\* The mutant of DropTrailing that drops one closing character only.
DropOneTrailing(s, S) ==
    IF s # << >> /\ s[Len(s)] \in S THEN SubSeq(s, 1, Len(s) - 1) ELSE s

DropTrailing(s, S) == SubSeq(s, 1, Len(s) - TrailingRun(s, S))

\* filename.strip(), line 51.
Strip(s) == DropTrailing(DropLeading(s, {Space}), {Space})

\* re.sub of a pattern that matches the runs, at least min long, of the
\* characters of S: every such run, leftmost first and as long as it goes, is
\* replaced by rep.
RECURSIVE SubRuns(_, _, _, _)
SubRuns(s, S, min, rep) ==
    IF s = << >> THEN << >>
    ELSE LET n == RunLen(s, S)
         IN  IF n >= min
             THEN rep \o SubRuns(SubSeq(s, n + 1, Len(s)), S, min, rep)
             ELSE IF n > 0
                  THEN SubSeq(s, 1, n) \o SubRuns(SubSeq(s, n + 1, Len(s)), S, min, rep)
                  ELSE <<s[1]>> \o SubRuns(Tail(s), S, min, rep)

\* re.sub(r"\s+", "_", filename), line 52.
SpacesToUnderscore(s) == SubRuns(s, {Space}, 1, <<"_">>)

\* re.sub(r"_+\.", ".", filename), line 53: a run of underscores with the dot
\* that follows it becomes the dot.
RECURSIVE UnderscoresDot(_)
UnderscoresDot(s) ==
    IF s = << >> THEN << >>
    ELSE LET n == RunLen(s, {"_"})
         IN  IF n > 0 /\ n < Len(s) /\ s[n + 1] = "."
             THEN <<".">> \o UnderscoresDot(SubSeq(s, n + 2, Len(s)))
             ELSE IF n > 0
                  THEN SubSeq(s, 1, n) \o UnderscoresDot(SubSeq(s, n + 1, Len(s)))
                  ELSE <<s[1]>> \o UnderscoresDot(Tail(s))

\* The mutant of CollapseUnderscores that leaves the runs as they are.
KeepUnderscoreRuns(s) == s

\* re.sub(r"__+", "_", filename), line 57.
CollapseUnderscores(s) == SubRuns(s, {"_"}, 2, <<"_">>)

\* re.sub(r"\.{2,}(\.[A-Za-z0-9]{1,5})$", r"\1", filename), line 58: three or
\* more dots before a closing extension of one to five characters become one.
DotsBeforeExt(s) ==
    LET e == TrailingRun(s, AsciiAlnum)
        stem == SubSeq(s, 1, Len(s) - e)
        d == TrailingRun(stem, {"."})
    IN  IF e >= 1 /\ e <= 5 /\ d >= 3
        THEN SubSeq(stem, 1, Len(stem) - d) \o <<".">> \o SubSeq(s, Len(s) - e + 1, Len(s))
        ELSE s

\* Merge.normalize_filename, lines 49-59.
NormalizeFilename(s) ==
    LET l49 == Nfkc(s)
        l50 == RemoveUnsafe(l49)
        l51 == Strip(l50)
        l52 == SpacesToUnderscore(l51)
        l53 == UnderscoresDot(l52)
        l54 == DropTrailing(l53, {"_"})
        l55 == DropLeading(l54, {"."})
        l56 == DropTrailing(l55, {"."})
        l57 == CollapseUnderscores(l56)
        l58 == DotsBeforeExt(l57)
    IN  l58

InitName ==
    /\ raw \in SeqsUpTo(Chars, MaxNameLen)
    /\ name_pc = "start"
    /\ once = << >>
    /\ twice = << >>
    /\ IdleBut("name")

\* A call of normalize_filename on the raw name.
Sanitize ==
    /\ name_pc = "start"
    /\ once' = NormalizeFilename(raw)
    /\ name_pc' = "once"
    /\ UNCHANGED << raw, twice >>
    /\ OnlyMoves("name")

\* A call of normalize_filename on what the first call returned.
SanitizeAgain ==
    /\ name_pc = "once"
    /\ twice' = NormalizeFilename(once)
    /\ name_pc' = "twice"
    /\ UNCHANGED << raw, once >>
    /\ OnlyMoves("name")

NextName ==
    \/ Sanitize
    \/ SanitizeAgain

SpecName == InitName /\ [][NextName]_vars

\* ------------------------------------------------------------ saving_files

\* The display names the uploads of the model carry: plain, with whitespace
\* and a separator, hidden, made of dots or of deleted characters only, empty.
RawNames ==
    { <<"a">>, <<Space, "a", "/", "a">>, <<"/", "a">>, <<".", "a">>,
      <<".", ".">>, <<"/">>, << >> }

\* The mutant of FallbackName that counts the uploads from 0.
FallbackNameZeroBased(i) == <<"file_", ToString(i - 1), ".mp3">>

\* f"file_{idx}.mp3", line 43.
FallbackName(i) == <<"file_", ToString(i), ".mp3">>

\* Line 43: Merge.normalize_filename(file.filename) or f"file_{idx}.mp3".
SafeName(filename, i) ==
    IF NormalizeFilename(filename) # << >> THEN NormalizeFilename(filename)
    ELSE FallbackName(i)

InitSave ==
    /\ uploads \in SeqsUpTo(RawNames, MaxFiles)
    /\ save_pc = "saving"
    /\ file_paths = << >>
    /\ upload_dir = {}
    /\ IdleBut("save")

\* saving_files, lines 42-47: one round of the loop in which file.save(path)
\* returns; the file at path is now this upload's.
SaveOne ==
    /\ save_pc = "saving"
    /\ Len(file_paths) < Len(uploads)
    /\ LET i == Len(file_paths) + 1
           path == Join(UploadDir, SafeName(uploads[i], i))
       IN  /\ upload_dir' = { e \in upload_dir : e[1] # path } \cup { <<path, i>> }
           /\ file_paths' = Append(file_paths, path)
    /\ UNCHANGED << uploads, save_pc >>
    /\ OnlyMoves("save")

\* saving_files, lines 48-50: file.save(path) raises and the call leaves with
\* RuntimeError.
SaveRaises ==
    /\ save_pc = "saving"
    /\ Len(file_paths) < Len(uploads)
    /\ save_pc' = "raised"
    /\ UNCHANGED << uploads, file_paths, upload_dir >>
    /\ OnlyMoves("save")

\* saving_files, line 51: return file_paths.
ReturnPaths ==
    /\ save_pc = "saving"
    /\ Len(file_paths) = Len(uploads)
    /\ save_pc' = "returned"
    /\ UNCHANGED << uploads, file_paths, upload_dir >>
    /\ OnlyMoves("save")

NextSave ==
    \/ SaveOne
    \/ SaveRaises
    \/ ReturnPaths

SpecSave == InitSave /\ [][NextSave]_vars

\* -------------------------------------------------------------- create_zip

\* The paths create_zip is given in the model: merged files of the merged
\* folder and a file of another folder.
ZipPaths ==
    { Join(MergedDir, MergedName(1)), Join(MergedDir, MergedName(2)),
      Join(UploadDir, <<"a.mp3">>) }

\* os.path.join(merged_folder, "merged_files.zip"), line 75.
ArchivePath == Join(MergedDir, <<"merged_files.zip">>)

\* The mutant of ArcName that stores a file under its whole path
\* (zipf.write(str(merged_file))).
ArcNameWholePath(path) == path

\* os.path.basename(merged_file), line 83.
ArcName(path) == Basename(path)

InitZip ==
    /\ zip_files \in SeqsUpTo(ZipPaths, MaxFiles)
    /\ on_disk \in SUBSET ZipPaths
    /\ zip_pc = "start"
    /\ zip_pos = 0
    /\ archive_exists = FALSE
    /\ entries = << >>
    /\ zip_result = NoPath
    /\ IdleBut("zip")

\* The mutant of RejectEmpty that opens the archive before it looks at the
\* list.
RejectEmptyAfterOpen ==
    /\ zip_pc = "start"
    /\ zip_files = << >>
    /\ zip_pc' = "raised"
    /\ archive_exists' = TRUE
    /\ UNCHANGED << zip_files, on_disk, zip_pos, entries, zip_result >>
    /\ OnlyMoves("zip")

\* create_zip, lines 76-79: an empty list raises RuntimeError.
RejectEmpty ==
    /\ zip_pc = "start"
    /\ zip_files = << >>
    /\ zip_pc' = "raised"
    /\ UNCHANGED << zip_files, on_disk, zip_pos, archive_exists, entries, zip_result >>
    /\ OnlyMoves("zip")

\* create_zip, line 80: ZipFile(archive_path, "w") creates the archive, empty.
OpenArchive ==
    /\ zip_pc = "start"
    /\ zip_files # << >>
    /\ archive_exists' = TRUE
    /\ entries' = << >>
    /\ zip_pc' = "open"
    /\ UNCHANGED << zip_files, on_disk, zip_pos, zip_result >>
    /\ OnlyMoves("zip")

\* create_zip, lines 81-83: a member that is a file is written to the archive
\* under its base name.
AddEntry ==
    /\ zip_pc = "open"
    /\ zip_pos < Len(zip_files)
    /\ zip_files[zip_pos + 1] \in on_disk
    /\ entries' = Append(entries, ArcName(zip_files[zip_pos + 1]))
    /\ zip_pos' = zip_pos + 1
    /\ UNCHANGED << zip_files, on_disk, zip_pc, archive_exists, zip_result >>
    /\ OnlyMoves("zip")

\* create_zip, line 83: zipf.write raises (the file cannot be read); the with
\* statement closes the archive and the exception leaves create_zip.
WriteRaises ==
    /\ zip_pc = "open"
    /\ zip_pos < Len(zip_files)
    /\ zip_files[zip_pos + 1] \in on_disk
    /\ zip_pc' = "raised"
    /\ UNCHANGED << zip_files, on_disk, zip_pos, archive_exists, entries, zip_result >>
    /\ OnlyMoves("zip")

\* create_zip, lines 84-85: a member that is not a file is logged and passed.
SkipAbsent ==
    /\ zip_pc = "open"
    /\ zip_pos < Len(zip_files)
    /\ zip_files[zip_pos + 1] \notin on_disk
    /\ zip_pos' = zip_pos + 1
    /\ UNCHANGED << zip_files, on_disk, zip_pc, archive_exists, entries, zip_result >>
    /\ OnlyMoves("zip")

\* create_zip, lines 86-87: the archive is closed and its path returned.
ReturnArchive ==
    /\ zip_pc = "open"
    /\ zip_pos = Len(zip_files)
    /\ zip_result' = ArchivePath
    /\ zip_pc' = "returned"
    /\ UNCHANGED << zip_files, on_disk, zip_pos, archive_exists, entries >>
    /\ OnlyMoves("zip")

NextZip ==
    \/ RejectEmpty
    \/ OpenArchive
    \/ AddEntry
    \/ WriteRaises
    \/ SkipAbsent
    \/ ReturnArchive

SpecZip == InitZip /\ [][NextZip]_vars

\* ------------------------------------------------------- the /merge handler

\* A request that passed the decorator: its files and count are read by
\* validate_merge_request, which admits 0 < count <= len(files) only.
InitReq ==
    /\ req_pc = "start"
    /\ n_uploads \in 1..MaxFiles
    /\ count \in 1..n_uploads
    /\ oversized \in [1..n_uploads -> BOOLEAN]
    /\ temp_dirs = {}
    /\ req_calls = << >>
    /\ merged_count = 0
    /\ cleanup_set = FALSE
    /\ status = "none"
    /\ IdleBut("req")

\* merge_files, lines 106-113: the rate limiter refuses the request (429), or
\* validate_merge_request returns an error response (400).
Refuse ==
    /\ req_pc = "start"
    /\ status' \in {"429", "400"}
    /\ req_pc' = "responding"
    /\ UNCHANGED << n_uploads, count, oversized, temp_dirs, req_calls,
                    merged_count, cleanup_set >>
    /\ OnlyMoves("req")

\* merge_files, lines 118-119: the two mkdtemp calls.
MakeWorkspace ==
    /\ req_pc = "start"
    /\ temp_dirs' = {UploadDir, MergedDir}
    /\ req_pc' = "save"
    /\ UNCHANGED << n_uploads, count, oversized, req_calls, merged_count,
                    cleanup_set, status >>
    /\ OnlyMoves("req")

\* merge_files, line 121: saving_files returns the saved paths.
SaveUploads ==
    /\ req_pc = "save"
    /\ req_calls' = Append(req_calls, "saving_files")
    /\ req_pc' = "sizes"
    /\ UNCHANGED << n_uploads, count, oversized, temp_dirs, merged_count,
                    cleanup_set, status >>
    /\ OnlyMoves("req")

\* merge_files, lines 123-128: a saved file is larger than max_bytes; both
\* directories are removed and the response is 400.
RejectOversized ==
    /\ req_pc = "sizes"
    /\ \E i \in 1..n_uploads : oversized[i]
    /\ temp_dirs' = {}
    /\ status' = "400"
    /\ req_pc' = "responding"
    /\ UNCHANGED << n_uploads, count, oversized, req_calls, merged_count, cleanup_set >>
    /\ OnlyMoves("req")

\* merge_files, line 130: no file is oversized and smart_merge_mp3_files
\* returns its merged paths, at most one for each group.
MergeUploads ==
    /\ req_pc = "sizes"
    /\ \A i \in 1..n_uploads : ~oversized[i]
    /\ merged_count' \in 0..((n_uploads + count - 1) \div count)
    /\ req_calls' = Append(req_calls, "smart_merge_mp3_files")
    /\ req_pc' = "zip"
    /\ UNCHANGED << n_uploads, count, oversized, temp_dirs, cleanup_set, status >>
    /\ OnlyMoves("req")

\* The mutant of ArchiveMerged whose create_zip returns an archive for an empty
\* list too.
ArchiveMergedAlways ==
    /\ req_pc = "zip"
    /\ req_calls' = Append(req_calls, "create_zip")
    /\ req_pc' = "send"
    /\ UNCHANGED << n_uploads, count, oversized, temp_dirs, merged_count,
                    cleanup_set, status >>
    /\ OnlyMoves("req")

\* merge_files, line 131: create_zip returns the archive's path; it does not
\* for an empty list.
ArchiveMerged ==
    /\ req_pc = "zip"
    /\ merged_count > 0
    /\ req_calls' = Append(req_calls, "create_zip")
    /\ req_pc' = "send"
    /\ UNCHANGED << n_uploads, count, oversized, temp_dirs, merged_count,
                    cleanup_set, status >>
    /\ OnlyMoves("req")

\* merge_files, lines 149-160: cleanup is registered and send_file makes the
\* response.
SendArchive ==
    /\ req_pc = "send"
    /\ cleanup_set' = TRUE
    /\ status' = "200"
    /\ req_pc' = "responding"
    /\ UNCHANGED << n_uploads, count, oversized, temp_dirs, req_calls, merged_count >>
    /\ OnlyMoves("req")

\* The calls made when a statement of the try block raises at position p:
\* the call that raised, if it was one of tools.utils.
CallsAtRaise(p) ==
    IF p = "save" THEN { Append(req_calls, "saving_files") }
    ELSE IF p = "sizes"
         THEN {req_calls} \cup
              (IF \A i \in 1..n_uploads : ~oversized[i]
               THEN { Append(req_calls, "smart_merge_mp3_files") } ELSE {})
    ELSE IF p = "zip" THEN { Append(req_calls, "create_zip") }
    ELSE {req_calls}

\* merge_files, lines 162-169: a statement of the try block raises (the second
\* mkdtemp, saving_files on a failed save, getsize, smart_merge_mp3_files,
\* create_zip on an empty list or a failed write, send_file); the handler logs
\* and answers 500.
ExceptHandler ==
    /\ req_pc \in {"start", "save", "sizes", "zip", "send"}
    /\ temp_dirs' = IF req_pc = "start" THEN {UploadDir} ELSE temp_dirs
    /\ req_calls' \in CallsAtRaise(req_pc)
    /\ status' = "500"
    /\ req_pc' = "responding"
    /\ UNCHANGED << n_uploads, count, oversized, merged_count, cleanup_set >>
    /\ OnlyMoves("req")

\* Flask runs the functions registered with after_this_request on the
\* response: cleanup (lines 149-158) removes both directories.
AfterRequest ==
    /\ req_pc = "responding"
    /\ temp_dirs' = IF cleanup_set THEN {} ELSE temp_dirs
    /\ req_pc' = "finished"
    /\ UNCHANGED << n_uploads, count, oversized, req_calls, merged_count,
                    cleanup_set, status >>
    /\ OnlyMoves("req")

NextReq ==
    \/ Refuse
    \/ MakeWorkspace
    \/ SaveUploads
    \/ RejectOversized
    \/ MergeUploads
    \/ ArchiveMerged
    \/ SendArchive
    \/ ExceptHandler
    \/ AfterRequest

SpecReq == InitReq /\ [][NextReq]_vars

\* ---------------------------------------------------------- the decorator

\* What app.py, lines 42-47, makes of TOKEN_MANAGER: None when the constructor
\* raised, else a manager whose tokens are required or not.
Managers == {"none", "tokens_required", "tokens_not_required"}

\* IPGeoTokenManager.allowed_tokens
AllowedTokens == {"t1"}

\* A header or URL is a scheme and what follows it; an absent one is empty.
Absent == << >>

Authorizations ==
    { Absent, <<"Bearer ", "t1">>, <<"Bearer ", " t1 ">>, <<"Bearer ", "bad">>,
      <<"Bearer ", "">>, <<"Basic ", "t1">> }

Urls ==
    { <<"https://", "app.example">>, <<"https://", "evil.example">>,
      <<"http://", "127.0.0.1:5000">> }

Hosts == {"app.example", "localhost:5000"}

CsrfTokens == {"", "c1", "c2"}

\* str.strip() of the credentials.
StripToken(t) == IF t = " t1 " THEN "t1" ELSE t

\* urlparse(url).netloc
Netloc(url) == IF url = Absent THEN "" ELSE url[2]

\* IPGeoTokenManager.is_valid_token, api_auth.py lines 150-156.
IsValidToken(manager, token) ==
    IF manager # "tokens_required" THEN TRUE
    ELSE IF token = "" THEN FALSE
    ELSE token \in AllowedTokens

\* check_csrf, security.py lines 33-34.
CheckCsrf ==
    LET token == IF form_csrf # "" THEN form_csrf ELSE header_csrf
    IN  token # "" /\ token = session_csrf

\* same_origin, lines 51-56: the expected host and its localhost twin.
ExpHosts ==
    LET expected == IF allowed_origin # Absent THEN Netloc(allowed_origin) ELSE host
    IN  {expected}
        \cup (IF expected = "localhost:5000" THEN {"127.0.0.1:5000"} ELSE {})
        \cup (IF expected = "127.0.0.1:5000" THEN {"localhost:5000"} ELSE {})

\* same_origin, lines 58-66.
SameOrigin ==
    IF origin # Absent /\ Netloc(origin) \in ExpHosts THEN TRUE
    ELSE IF referer # Absent /\ Netloc(referer) \in ExpHosts THEN TRUE
    ELSE origin = Absent /\ referer = Absent

InitAuth ==
    /\ token_manager \in Managers
    /\ allowed_origin \in {Absent, <<"https://", "app.example">>}
    /\ host \in Hosts
    /\ authorization \in Authorizations
    /\ origin \in {Absent} \cup Urls
    /\ referer \in {Absent} \cup Urls
    /\ form_csrf \in CsrfTokens
    /\ header_csrf \in CsrfTokens
    /\ session_csrf \in {"", "c1"}
    /\ auth_pc = "start"
    /\ invoked = FALSE
    /\ auth_status = "none"
    /\ IdleBut("auth")

\* wrapper, security.py lines 89-101: what the wrapper does with the request:
\* it calls the handler, or answers 403 or 401 itself.
Verdict ==
    IF authorization # Absent /\ authorization[1] = "Bearer "
    THEN IF token_manager # "none"
            /\ ~IsValidToken(token_manager, StripToken(authorization[2]))
         THEN "403"
         ELSE "handler"
    ELSE IF SameOrigin /\ CheckCsrf THEN "handler"
    ELSE "401"

\* One call of the wrapper.
Wrapper ==
    /\ auth_pc = "start"
    /\ invoked' = (Verdict = "handler")
    /\ auth_status' = IF Verdict = "handler" THEN "none" ELSE Verdict
    /\ auth_pc' = "done"
    /\ UNCHANGED << token_manager, allowed_origin, host, authorization, origin,
                    referer, form_csrf, header_csrf, session_csrf >>
    /\ OnlyMoves("auth")

NextAuth == Wrapper

SpecAuth == InitAuth /\ [][NextAuth]_vars

\* --------------------------------------------------------- the rate limiter

\* The last reading of the clock in the model.
MaxTime == 3

\* RateLimiter._key(): a bearer token or an address.
Keys == {"t:x", "ip:a"}

\* The configurations of the limiter: window_sec and max_req.
Windows == {1, 2}
MaxReqs == {1, 2}

\* check, lines 47-49: the deque without the leading timestamps that are not
\* after limit_from.
RECURSIVE Pruned(_, _)
Pruned(q, limit_from) ==
    IF q # << >> /\ q[1] <= limit_from THEN Pruned(Tail(q), limit_from) ELSE q

\* The mutant of Refused that refuses only a deque longer than max_req
\* (len(q) > self.max_req).
RefusedAbove(q, limit) == Len(q) > limit

\* check, line 51: len(q) >= self.max_req.
Refused(q, limit) == Len(q) >= limit

InitLimit ==
    /\ window \in Windows
    /\ max_req \in MaxReqs
    /\ clock = 0
    /\ bucket = [k \in Keys |-> << >>]
    /\ admitted = [k \in Keys |-> << >>]
    /\ last_key = ""
    /\ last_ret = "none"
    /\ th = << >>
    /\ IdleBut("limit")

\* time.monotonic() has moved on.
Tick ==
    /\ clock < MaxTime
    /\ clock' = clock + 1
    /\ UNCHANGED << window, max_req, bucket, admitted, last_key, last_ret, th >>
    /\ OnlyMoves("limit")

\* RateLimiter.check, lines 43-56, for a request with the key.
Check(key) ==
    /\ LET q == Pruned(bucket[key], clock - window)
       IN  IF Refused(q, max_req)
           THEN /\ bucket' = [bucket EXCEPT ![key] = q]
                /\ last_ret' = "False"
                /\ UNCHANGED admitted
           ELSE /\ bucket' = [bucket EXCEPT ![key] = Append(q, clock)]
                /\ admitted' = [admitted EXCEPT ![key] = Append(@, clock)]
                /\ last_ret' = "True"
    /\ last_key' = key
    /\ UNCHANGED << window, max_req, clock, th >>
    /\ OnlyMoves("limit")

NextLimit ==
    \/ Tick
    \/ \E key \in Keys : Check(key)

SpecLimit == InitLimit /\ [][NextLimit]_vars

\* -------------------------------------- the rate limiter, called by threads

\* The threads of the server that are inside check() at a time.
NumThreads == 2

NotInCheck == [pc |-> "out", key |-> "", now |-> 0]

InitThreads ==
    /\ window \in Windows
    /\ max_req \in MaxReqs
    /\ clock = 0
    /\ bucket = [k \in Keys |-> << >>]
    /\ admitted = [k \in Keys |-> << >>]
    /\ last_key = ""
    /\ last_ret = "none"
    /\ th = [t \in 1..NumThreads |-> NotInCheck]
    /\ IdleBut("limit")

\* check, lines 43-48: a thread reads the clock, its key and the key's deque.
Enter(t, key) ==
    /\ th[t].pc = "out"
    /\ th' = [th EXCEPT ![t] = [pc |-> "prune", key |-> key, now |-> clock]]
    /\ UNCHANGED << window, max_req, clock, bucket, admitted, last_key, last_ret >>
    /\ OnlyMoves("limit")

\* check, lines 49-50: one round of the while loop.
PopLeft(t) ==
    /\ th[t].pc = "prune"
    /\ bucket[th[t].key] # << >>
    /\ bucket[th[t].key][1] <= th[t].now - window
    /\ bucket' = [bucket EXCEPT ![th[t].key] = Tail(@)]
    /\ UNCHANGED << window, max_req, clock, admitted, last_key, last_ret, th >>
    /\ OnlyMoves("limit")

\* check, lines 49 and 52-53: the loop is over; a full deque returns False.
TestLen(t) ==
    /\ th[t].pc = "prune"
    /\ ~(bucket[th[t].key] # << >> /\ bucket[th[t].key][1] <= th[t].now - window)
    /\ IF Refused(bucket[th[t].key], max_req)
       THEN /\ th' = [th EXCEPT ![t] = [@ EXCEPT !.pc = "returned"]]
            /\ last_key' = th[t].key
            /\ last_ret' = "False"
       ELSE /\ th' = [th EXCEPT ![t] = [@ EXCEPT !.pc = "append"]]
            /\ UNCHANGED << last_key, last_ret >>
    /\ UNCHANGED << window, max_req, clock, bucket, admitted >>
    /\ OnlyMoves("limit")

\* check, lines 55-56: q.append(now); return True.
AppendNow(t) ==
    /\ th[t].pc = "append"
    /\ bucket' = [bucket EXCEPT ![th[t].key] = Append(@, th[t].now)]
    /\ admitted' = [admitted EXCEPT ![th[t].key] = Append(@, th[t].now)]
    /\ th' = [th EXCEPT ![t] = [@ EXCEPT !.pc = "returned"]]
    /\ last_key' = th[t].key
    /\ last_ret' = "True"
    /\ UNCHANGED << window, max_req, clock >>
    /\ OnlyMoves("limit")

NextThreads ==
    \/ Tick
    \/ \E t \in 1..NumThreads : \E key \in Keys : Enter(t, key)
    \/ \E t \in 1..NumThreads : PopLeft(t)
    \/ \E t \in 1..NumThreads : TestLen(t)
    \/ \E t \in 1..NumThreads : AppendNow(t)

SpecThreads == InitThreads /\ [][NextThreads]_vars

\* ------------------------------------------------- validate_merge_request

\* The longest list of files a request carries to the validator in the model.
MaxUploads == 2

\* An uploaded file: its filename in pieces (stem, extension), the size
\* _file_size measures, and whether MP3(file.stream) finds a header.
UploadKinds ==
    { [filename |-> <<"a", ".mp3">>, size |-> 1, mp3 |-> TRUE],
      [filename |-> <<"A", ".MP3">>, size |-> 2, mp3 |-> TRUE],
      [filename |-> <<"a", ".txt">>, size |-> 1, mp3 |-> TRUE],
      [filename |-> <<" ">>,         size |-> 1, mp3 |-> TRUE],
      [filename |-> << >>,           size |-> 1, mp3 |-> TRUE],
      [filename |-> <<"a", ".mp3">>, size |-> 0, mp3 |-> TRUE],
      [filename |-> <<"a", ".mp3">>, size |-> 3, mp3 |-> TRUE],
      [filename |-> <<"a", ".mp3">>, size |-> 1, mp3 |-> FALSE] }

\* str.lower() of one piece of a filename.
Lower(piece) ==
    IF piece = "A" THEN "a" ELSE IF piece = ".MP3" THEN ".mp3" ELSE piece

\* _filter_empty_files, lines 34-47: the files whose stripped name is not empty.
FilterEmptyFiles(raw_list) ==
    SelectSeq(raw_list, LAMBDA f : SelectSeq(f.filename, LAMBDA c : c # " ") # << >>)

\* The error of a check: a message and a status code; none is the empty tuple.
NoError == << >>

\* The mutant of CheckFilesAndCount without the test count > len(files).
CheckFilesAndCountNoUpper(list, cnt, limit) ==
    IF list = << >> THEN <<"No files provided", "400">>
    ELSE IF cnt = << >> THEN <<"Parameter 'count' is required", "400">>
    ELSE IF cnt[1] <= 0 THEN <<"Parameter 'count' must be > 0", "400">>
    ELSE IF Len(list) > limit THEN <<"Too many files", "400">>
    ELSE NoError

\* _check_files_and_count, lines 60-81.
CheckFilesAndCount(list, cnt, limit) ==
    IF list = << >> THEN <<"No files provided", "400">>
    ELSE IF cnt = << >> THEN <<"Parameter 'count' is required", "400">>
    ELSE IF cnt[1] <= 0 THEN <<"Parameter 'count' must be > 0", "400">>
    ELSE IF Len(list) > limit THEN <<"Too many files", "400">>
    ELSE IF cnt[1] > Len(list) THEN <<"Parameter 'count' must be <= number of files", "400">>
    ELSE NoError

\* _check_mp3_extension_and_size, lines 111-121.
ExtensionAndSizeError(f, limit) ==
    IF Lower(f.filename[Len(f.filename)]) # ".mp3" THEN <<"File must have .mp3 extension", "400">>
    ELSE IF f.size = 0 THEN <<"File is empty", "400">>
    ELSE IF f.size > limit THEN <<"File is too large", "400">>
    ELSE NoError

\* check_files_are_mp3, utils.py lines 15-34: the error of the first file
\* without an MP3 header, in list order.
CheckFilesAreMp3(list) ==
    LET bad == { i \in 1..Len(list) : ~list[i].mp3 }
    IN  IF bad = {} THEN NoError ELSE <<"File is not a valid MP3", "400">>

\* validate_merge_request, lines 162-166: the error of the first file that
\* fails _check_mp3_extension_and_size, in list order.
CheckEachFile(list, limit) ==
    LET bad == { i \in 1..Len(list) : ExtensionAndSizeError(list[i], limit) # NoError }
        first == CHOOSE i \in bad : \A j \in bad : i <= j
    IN  IF bad = {} THEN NoError ELSE ExtensionAndSizeError(list[first], limit)

\* _check_sizes, lines 84-94: the error of the first file above the limit.
CheckSizes(list, limit) ==
    IF \E i \in 1..Len(list) : list[i].size > limit
    THEN <<"File is too large", "400">>
    ELSE NoError

\* validate_merge_request, lines 138-171: the checks in their order; each runs
\* only if no check before it found an error.
ValidationError ==
    LET list == FilterEmptyFiles(raw_files)
        e2 == CheckFilesAndCount(list, form_count, max_files)
        e4 == CheckFilesAreMp3(list)
        e5 == CheckEachFile(list, max_bytes)
    IN  IF ~multipart THEN <<"Content-Type must be multipart/form-data", "415">>
        ELSE IF e2 # NoError THEN e2
        ELSE IF ~ffmpeg_available THEN <<"FFmpeg is not available in runtime", "500">>
        ELSE IF e4 # NoError THEN e4
        ELSE IF e5 # NoError THEN e5
        ELSE CheckSizes(list, max_bytes)

InitValid ==
    /\ multipart \in BOOLEAN
    /\ raw_files \in SeqsUpTo(UploadKinds, MaxUploads)
    /\ form_count \in {<< >>} \cup { <<n>> : n \in 0..(MaxUploads + 1) }
    /\ max_files \in 1..MaxUploads
    /\ max_bytes \in {1, 2}
    /\ ffmpeg_available \in BOOLEAN
    /\ valid_pc = "start"
    /\ validation = NoResult
    /\ IdleBut("valid")

\* validate_merge_request, lines 124-176.
Validate ==
    /\ valid_pc = "start"
    /\ validation' =
          IF ValidationError # NoError
          THEN [files |-> << >>, count |-> << >>,
                error_response |-> <<ValidationError[1]>>,
                status_code |-> <<ValidationError[2]>>]
          ELSE [files |-> <<FilterEmptyFiles(raw_files)>>, count |-> form_count,
                error_response |-> << >>, status_code |-> << >>]
    /\ valid_pc' = "done"
    /\ UNCHANGED << multipart, raw_files, form_count, max_files, max_bytes,
                    ffmpeg_available >>
    /\ OnlyMoves("valid")

NextValid == Validate

SpecValid == InitValid /\ [][NextValid]_vars

\* ------------------------------------------------------------ token reload

\* The longest token file of the model, in lines.
MaxLines == 2

\* The lines of a token file, as text.splitlines() gives them: a token, a token
\* between spaces, a comment after a space and a blank line.
LineKinds == { <<"a">>, <<Space, "b", Space>>, <<Space, "#", "a">>, <<Space>> }

\* The mutant of ParseTokens that keeps the comment lines.
RECURSIVE ParseTokensKeepComments(_)
ParseTokensKeepComments(lines) ==
    IF lines = << >> THEN {}
    ELSE LET line == Strip(Head(lines))
         IN  IF line = << >>
             THEN ParseTokensKeepComments(Tail(lines))
             ELSE {line} \cup ParseTokensKeepComments(Tail(lines))

\* _parse_tokens, lines 108-117: every line is stripped, and is skipped if it
\* is then empty or starts with "#".
RECURSIVE ParseTokens(_)
ParseTokens(lines) ==
    IF lines = << >> THEN {}
    ELSE LET line == Strip(Head(lines))
         IN  IF line = << >> \/ Head(line) = "#"
             THEN ParseTokens(Tail(lines))
             ELSE {line} \cup ParseTokens(Tail(lines))

\* Why os.stat, open or f.read raise: no such file, no permission, bytes that
\* are not UTF-8.
ReadFailures == {"missing", "unreadable", "undecodable"}

\* __init__ and _init_tokens, lines 32-46 and 99-106: the manager after its
\* construction. With tokens required the constructor raises unless the file
\* was there and was read; otherwise a file that was not read leaves the
\* allow-list empty and no mtime recorded.
InitTokens ==
    /\ token_file \in {"", "tokens.txt"}
    /\ tokens_required \in BOOLEAN
    /\ file_lines \in SeqsUpTo(LineKinds, MaxLines)
    /\ file_mtime = 0
    /\ file_state \in {"ok"} \cup ReadFailures
    /\ tokens_required => (token_file # "" /\ file_state = "ok")
    /\ allowed_tokens =
          IF token_file # "" /\ file_state = "ok" THEN ParseTokens(file_lines) ELSE {}
    /\ tokens_mtime =
          IF token_file # "" /\ file_state = "ok" THEN <<file_mtime>> ELSE << >>
    /\ reload_outcome = ""
    /\ IdleBut("tokens")

\* Somebody writes the token file anew.
RewriteFile(lines) ==
    /\ file_mtime < MaxTime
    /\ file_lines' = lines
    /\ file_mtime' = file_mtime + 1
    /\ file_state' = "ok"
    /\ reload_outcome' = ""
    /\ UNCHANGED << token_file, tokens_required, allowed_tokens, tokens_mtime >>
    /\ OnlyMoves("tokens")

\* The token file is removed, or becomes unreadable.
BreakFile(why) ==
    /\ file_state = "ok"
    /\ file_state' = why
    /\ reload_outcome' = ""
    /\ UNCHANGED << token_file, tokens_required, allowed_tokens, tokens_mtime,
                    file_lines, file_mtime >>
    /\ OnlyMoves("tokens")

\* reload_tokens, lines 137-140, with _load_tokens(force=True), lines 119-135.
ReloadTokens ==
    /\ IF token_file = ""
       THEN /\ reload_outcome' = "returned"
            /\ UNCHANGED << allowed_tokens, tokens_mtime >>
       ELSE IF file_state = "ok"
       THEN /\ allowed_tokens' = ParseTokens(file_lines)
            /\ tokens_mtime' = <<file_mtime>>
            /\ reload_outcome' = "returned"
       ELSE /\ reload_outcome' = IF tokens_required THEN "raised" ELSE "returned"
            /\ UNCHANGED << allowed_tokens, tokens_mtime >>
    /\ UNCHANGED << token_file, tokens_required, file_lines, file_mtime, file_state >>
    /\ OnlyMoves("tokens")

NextTokens ==
    \/ \E lines \in SeqsUpTo(LineKinds, MaxLines) : RewriteFile(lines)
    \/ \E why \in ReadFailures : BreakFile(why)
    \/ ReloadTokens

SpecTokens == InitTokens /\ [][NextTokens]_vars

\* ------------------------------------------------------------------ claims

Range(s) == { s[i] : i \in 1..Len(s) }

IsPrefix(s, t) == Len(s) <= Len(t) /\ \A i \in 1..Len(s) : s[i] = t[i]

FastCalls == <<"all_params_equal", "merge_files_in_groups">>

SlowCalls ==
    <<"all_params_equal", "normalize_mp3_file_parallel", "merge_mp3_groups_ffmpeg">>

Fast == "merge_files_in_groups" \in Range(calls)

Slow == "merge_mp3_groups_ffmpeg" \in Range(calls)

\* C1: every call of smart_merge_mp3_files runs one strategy, fixed by the
\* probe: when all_params_equal returned true, the calls made are a prefix of
\* (probe, byte concatenator), the byte concatenator gets the original paths
\* and its result is returned; when it returned false, the calls are a prefix
\* of (probe, normalizer, transcoder concatenator). A call that returns has
\* made exactly one of the two sequences.
C1_OneStrategy ==
    /\ pc = "probed" => equal = AllParamsEqual(params)
    /\ calls # << >> =>
          IF equal THEN IsPrefix(calls, FastCalls) ELSE IsPrefix(calls, SlowCalls)
    /\ Fast => file_list = files
    /\ pc = "done" =>
          /\ calls = IF equal THEN FastCalls ELSE SlowCalls
          /\ result = merged_paths

\* C1, witness: a call that took the slow path has returned a merged file.
C1_Witness == pc = "done" /\ calls = SlowCalls /\ result # << >>

\* C2, as claimed: the list the transcoder concatenator gets holds no None:
\* the failed normalizations were filtered out before grouping.
C2_OnlySuccessesGrouped ==
    Slow => \A i \in 1..Len(file_list) : file_list[i] # NoPath

\* C3, as claimed: a list of two or more files of which one has unreadable
\* parameters is never found compatible by all_params_equal.
C3_UnreadableNeverCompatible ==
    (/\ pc = "probed"
     /\ Len(files) >= 2
     /\ \E i \in 1..Len(params) : params[i] = NoneParams) => ~equal

\* C4: whatever order the workers finish in, normalized_files keeps the length
\* of the input, position i holds None or the normalized path of input i, and
\* it holds a path only once future i was collected with a path as its result.
C4_PositionStable ==
    "normalize_mp3_file_parallel" \in Range(calls) =>
        /\ Len(normalized_files) = Len(files)
        /\ \A i \in 1..Len(files) :
             normalized_files[i] \in {NoPath, NormalizedPath(files[i])}
        /\ pc \in {"normalize", "shutdown"} =>
             \A i \in 1..Len(files) :
                normalized_files[i] # NoPath =>
                    /\ i \in yielded
                    /\ futures[i].state = "returned"
                    /\ futures[i].value[2] # NoPath
        /\ Slow => file_list = normalized_files

\* C4, witness: the result of a later input is stored while the worker of an
\* earlier input, of another name, is still running.
C4_Witness ==
    /\ pc = "normalize"
    /\ Len(files) >= 2
    /\ files[1] # files[2]
    /\ futures[1].state = "pending"
    /\ normalized_files[2] = NormalizedPath(files[2])

\* C5, as claimed: a failing invocation, one that raises included, leaves None
\* at its position and normalize_mp3_file_parallel returns without raising.
C5_NormalizeNeverRaises == raised_in # "normalize_mp3_file_parallel"

\* ceil(n / g)
NumGroups(n, g) == (n + g - 1) \div g

MergedPath(k) == Join(MergedDir, MergedName(k))

\* The number k of a path merged_<k>.mp3 of the merged folder.
NumberOf(path) == CHOOSE k \in 1..(MaxFiles + 1) : path = MergedPath(k)

OkGroups(rcs) == { i \in 1..Len(rcs) : rcs[i] = RcOk }

RECURSIVE OkGroupPaths(_, _)
OkGroupPaths(rcs, n) ==
    IF n = 0 THEN << >>
    ELSE IF rcs[n] = RcOk
         THEN Append(OkGroupPaths(rcs, n - 1), MergedPath(n))
         ELSE OkGroupPaths(rcs, n - 1)

\* C8: in merge_mp3_groups_ffmpeg the output of a successful group is
\* merged_<i>.mp3, i the 1-based position of the group among all groups,
\* failed ones included: merged_paths is the list of these names for the
\* groups that succeeded, in order.
C8_NamedByGroupPosition ==
    Slow => merged_paths = OkGroupPaths(group_rc, Len(group_rc))

\* C8, witness: three inputs in groups of two, the first group failed and the
\* second succeeded: the result is [merged_2.mp3].
C8_Witness ==
    /\ pc = "done"
    /\ Slow
    /\ Len(file_list) = 3
    /\ group_size = 2
    /\ group_rc = <<RcFail, RcOk>>
    /\ result = <<MergedPath(2)>>

\* The bytes on disk of input i of the call.
DataOf(i) == disk[Basename(files[i])].data

ExistsOf(i) == disk[Basename(files[i])].exists

\* The bytes of inputs lo..hi, one after the other.
RECURSIVE ConcatRange(_, _)
ConcatRange(lo, hi) ==
    IF lo > hi THEN << >> ELSE DataOf(lo) \o ConcatRange(lo + 1, hi)

\* The bytes of those of inputs lo..hi that exist, one after the other.
RECURSIVE ConcatExisting(_, _)
ConcatExisting(lo, hi) ==
    IF lo > hi THEN << >>
    ELSE (IF ExistsOf(lo) THEN DataOf(lo) ELSE << >>) \o ConcatExisting(lo + 1, hi)

\* C9: for n existing files and a group size g, merge_files_in_groups returns
\* merged_1.mp3 ... merged_ceil(n/g).mp3 in this order, and output k holds the
\* bytes of the inputs at (1-based) positions (k-1)g+1 ... min(kg, n), in
\* input order.
C9_ByteGroups ==
    (/\ pc = "done"
     /\ Fast
     /\ \A i \in 1..Len(files) : ExistsOf(i)) =>
        /\ result = [k \in 1..NumGroups(Len(files), group_size) |-> MergedPath(k)]
        /\ DOMAIN out = Range(result)
        /\ \A k \in 1..Len(result) :
             out[result[k]] =
                 ConcatRange((k - 1) * group_size + 1,
                             Min(k * group_size, Len(files)))

\* C9, witness: three existing files of different, non-empty content in
\* groups of two gave two outputs, the second from a short group.
C9_Witness ==
    /\ pc = "done"
    /\ Fast
    /\ Len(files) = 3
    /\ group_size = 2
    /\ \A i \in 1..3 : ExistsOf(i) /\ DataOf(i) # << >>
    /\ DataOf(1) # DataOf(2)
    /\ Len(result) = 2

\* C10: a member of a group that is no file is skipped: the call still
\* returns ceil(n/g) outputs, all of them written, and output k holds the
\* bytes of those members of group k that exist, in order (none if no member
\* exists); the byte concatenator raises nothing.
C10_MissingMemberSkipped ==
    /\ Fast => raised_in = None
    /\ (pc = "done" /\ Fast) =>
          /\ Len(result) = NumGroups(Len(files), group_size)
          /\ \A k \in 1..Len(result) :
               /\ result[k] \in DOMAIN out
               /\ out[result[k]] =
                      ConcatExisting((k - 1) * group_size + 1,
                                     Min(k * group_size, Len(files)))

\* C10, witness: a group whose first member is missing and whose second
\* exists gave an output with the bytes of the second; another group with no
\* member on disk gave an empty output.
C10_Witness ==
    /\ pc = "done"
    /\ Fast
    /\ Len(files) = 3
    /\ group_size = 2
    /\ ~ExistsOf(1) /\ ExistsOf(2) /\ DataOf(2) # << >>
    /\ ~ExistsOf(3)
    /\ Len(result) = 2
    /\ out[result[1]] = DataOf(2)
    /\ out[result[2]] = << >>

\* C11: all_params_equal returns true exactly when every file's triple agrees
\* with the first file's in each of its three fields (bitrate, sample rate,
\* channels); so it returns true for the empty list and for a single file, and
\* false as soon as one file differs from the first in one field.
C11_TupleEquality ==
    pc = "probed" =>
       /\ Len(params) <= 1 => equal
       /\ equal <=> \A i \in 1..Len(params) : \A f \in 1..3 : params[i][f] = params[1][f]

\* C11, witness: three files were probed, one of which differs from the first
\* in a single field, and the probe returned false.
C11_Witness ==
    /\ pc = "probed"
    /\ Len(params) = 3
    /\ ~equal
    /\ params[2] = params[1]
    /\ Cardinality({ f \in 1..3 : params[3][f] # params[1][f] }) = 1

\* C16, as claimed: the sanitizer is idempotent: applied to its own result it
\* returns that result.
C16_Idempotent == name_pc = "twice" => twice = once

\* C17: whatever the input, the sanitizer's result does not begin with a dot
\* and does not end with a dot or an underscore; so it is neither "." nor "..".
C17_NoEdgeDots ==
    name_pc # "start" =>
       /\ once # << >> => once[1] # "." /\ once[Len(once)] \notin {".", "_"}
       /\ once \notin { <<".">>, <<".", ".">> }

\* C17, witness: a name that begins with a dot and ends with dots and
\* underscores was sanitized to a name that is not empty.
C17_Witness ==
    /\ name_pc = "once"
    /\ Len(raw) = MaxNameLen
    /\ raw[1] = "."
    /\ raw[Len(raw) - 1] = "."
    /\ raw[Len(raw)] = "_"
    /\ once # << >>

\* The sanitizer's result has no two underscores in a row.
NoUnderscoreRun(s) == \A i \in 1..(Len(s) - 1) : ~(s[i] = "_" /\ s[i + 1] = "_")

\* The characters a whitespace run is kept between.
Kept == {"a", "-", HangulL, HangulV}

ExpectedName(i) ==
    LET clean == NormalizeFilename(uploads[i])
    IN  IF clean = << >> THEN <<"file_", ToString(i), ".mp3">> ELSE clean

\* C19: saving_files returns one path per upload, in upload order; each path is
\* the upload folder, a separator and a name without separator that is the
\* upload's sanitized display name, or file_<index>.mp3 (index from 1) exactly
\* when the sanitized name is empty; no name is empty.
C19_OnePathPerUpload ==
    /\ save_pc = "returned" => Len(file_paths) = Len(uploads)
    /\ \A i \in 1..Len(file_paths) :
          /\ file_paths[i] = <<UploadDir, Sep>> \o ExpectedName(i)
          /\ Len(file_paths[i]) > 2
          /\ \A j \in 3..Len(file_paths[i]) : file_paths[i][j] \notin {Sep, "..", "."}
          /\ (file_paths[i] = <<UploadDir, Sep, "file_", ToString(i), ".mp3">>)
                <=> (NormalizeFilename(uploads[i]) = << >>)

\* C19, witness: three uploads were saved and returned, the second under the
\* fallback name, the others under their sanitized names.
C19_Witness ==
    /\ save_pc = "returned"
    /\ uploads = << <<Space, "a", "/", "a">>, <<".", ".">>, <<".", "a">> >>
    /\ file_paths = << <<UploadDir, Sep, "a", "a">>,
                       <<UploadDir, Sep, "file_", "2", ".mp3">>,
                       <<UploadDir, Sep, "a">> >>

\* C12: create_zip called with an empty list raises; it creates no archive
\* file and returns no path.
C12_EmptyListRaises ==
    zip_files = << >> /\ zip_pc # "idle" =>
       /\ zip_pc \in {"start", "raised"}
       /\ ~archive_exists
       /\ zip_result = NoPath

\* C12, witness: a call with an empty list has raised.
C12_Witness == zip_files = << >> /\ zip_pc = "raised"

\* C13, as claimed: an archive create_zip returns has at least one entry,
\* whatever the list, also when none of the listed files is on disk.
C13_NeverEmptyZip == zip_pc = "returned" => Len(entries) >= 1

\* The base names of the members of the list from position k on that are on
\* disk, in list order.
RECURSIVE BaseNamesOnDisk(_)
BaseNamesOnDisk(k) ==
    IF k > Len(zip_files) THEN << >>
    ELSE (IF zip_files[k] \in on_disk
          THEN << SubSeq(zip_files[k], 3, Len(zip_files[k])) >>
          ELSE << >>) \o BaseNamesOnDisk(k + 1)

\* C14: for a list that is not empty, create_zip returns
\* <output_dir>/merged_files.zip; the archive's entries are the base names,
\* without directory, of the listed files that are on disk, in list order; a
\* listed file that is absent does not make the call fail.
C14_EntriesAreBaseNames ==
    /\ zip_pc = "returned" =>
          /\ zip_files # << >>
          /\ zip_result = <<MergedDir, Sep, "merged_files.zip">>
          /\ archive_exists
          /\ entries = BaseNamesOnDisk(1)
          /\ \A i \in 1..Len(entries) : Sep \notin Range(entries[i])
    /\ zip_pc = "raised" /\ zip_files # << >> => zip_files[zip_pos + 1] \in on_disk

\* C14, witness: of three listed files the second is absent; the archive was
\* returned with the base names of the first and the third.
C14_Witness ==
    /\ zip_pc = "returned"
    /\ Len(zip_files) = 3
    /\ zip_files[1] \in on_disk
    /\ zip_files[2] \notin on_disk
    /\ zip_files[3] = Join(UploadDir, <<"a.mp3">>)
    /\ entries = << Basename(zip_files[1]), <<"a.mp3">> >>

\* C15, as claimed: a /merge request that created its temporary workspace has
\* deleted both directories by the time it is finished, on every path: success,
\* rejection of an oversized file, an exception while saving, merging or
\* archiving.
C15_WorkspaceRemoved == req_pc = "finished" => temp_dirs = {}

\* The request carries a Bearer token that passes the token manager's
\* is_valid_token.
BearerPasses ==
    /\ authorization # Absent
    /\ authorization[1] = "Bearer "
    /\ token_manager # "none"
    /\ IsValidToken(token_manager, StripToken(authorization[2]))

\* C20, as claimed: the wrapped handler is called only if the request carries
\* a Bearer token that passes token_manager.is_valid_token, or is same-origin
\* with a CSRF token equal to the session's; in every other case, whatever the
\* token manager, the handler is not called and the answer is 401 or 403.
C20_OnlyAuthorizedInvoke ==
    auth_pc = "done" =>
       IF BearerPasses \/ (SameOrigin /\ CheckCsrf)
       THEN TRUE
       ELSE ~invoked /\ auth_status \in {"401", "403"}

\* C24: in every execution of smart_merge_mp3_files the probe has read every
\* path before a transcoder invocation is submitted, and on the slow path
\* every worker of the normalization batch has finished, with a result or a
\* failure, before the concatenator is called; while the concatenator runs no
\* worker is left.
C24_PhaseOrder ==
    [][ /\ (futures = << >> /\ futures' # << >>) =>
            /\ pc = "probed"
            /\ calls = <<"all_params_equal">>
            /\ Len(params) = Len(files)
        /\ (pc = "normalize" /\ pc' = "concat") =>
            /\ Len(futures) = Len(files)
            /\ \A k \in 1..Len(futures) : futures[k].state # "pending"
        /\ pc' \in {"concat", "ffmpeg"} => futures' = << >> ]_vars

\* C24, witness: the concatenator runs the transcoder on the first group of
\* three files of which one failed to normalize and two succeeded.
C24_Witness ==
    /\ pc = "ffmpeg"
    /\ idx = 1
    /\ calls = SlowCalls
    /\ Len(file_list) = 3
    /\ Cardinality({ i \in 1..3 : file_list[i] = NoPath }) = 1

\* C25: no transcoder invocation is retried. In one call of
\* normalize_mp3_file_parallel position k is submitted once, as future k, and a
\* future that has finished, with a result or a failure, is never run again;
\* in one call of merge_mp3_groups_ffmpeg every run of the transcoder is the
\* single run of the group the loop is at, after which the loop moves on to
\* the next group or the call raises.
C25_NoRetry ==
    [][ /\ futures' # << >> =>
            /\ Len(futures') = Len(files)
            /\ \A k \in 1..Len(futures') : futures'[k].args = <<files[k], k>>
        /\ \A k \in 1..Len(futures) :
              (futures[k].state # "pending" /\ futures' # << >>) => futures'[k] = futures[k]
        /\ group_rc' # group_rc /\ group_rc' # << >> =>
            /\ pc = "ffmpeg"
            /\ group_rc' = Append(group_rc, group_rc'[Len(group_rc')])
            /\ Len(group_rc') = idx
            /\ idx' = idx + 1 \/ pc' = "raised" ]_vars

\* C25, witness: a call has returned after a worker failed and, of its two
\* groups, the transcoder had exited nonzero for the first: two futures for two
\* files and two runs for two groups were all there was.
C25_Witness ==
    /\ pc = "done"
    /\ calls = SlowCalls
    /\ group_size = 1
    /\ Len(file_list) = 2
    /\ file_list[1] = NoPath
    /\ group_rc = <<RcFail, RcOk>>

\* C26: merge_mp3_groups_ffmpeg leaves no manifest behind. The only manifest
\* on disk is the one of the group whose transcoder is running; it is gone
\* before the next group is taken up and before the call returns or raises,
\* whether the transcoder exited with 0, exited nonzero, or its invocation
\* raised.
C26_NoManifestLeft ==
    /\ pc # "ffmpeg" => manifests = {}
    /\ pc = "ffmpeg" =>
          /\ Cardinality(manifests) = 1
          /\ \A mf \in manifests : mf.path = ListPath(idx)
          /\ Len(group_rc) = idx - 1

\* C26, witness: the transcoder exited nonzero for the first group, with 0 for
\* the second and its invocation raised for the third; the call has raised and
\* no manifest is on disk.
C26_Witness ==
    /\ pc = "raised"
    /\ raised_in = "merge_mp3_groups_ffmpeg"
    /\ group_rc = <<RcFail, RcOk, RcExc>>
    /\ manifests = {}

\* C28, as claimed: saving_files lets no upload overwrite another: the paths
\* it returns are pairwise distinct and each upload's bytes are on disk under
\* its own path, also when two display names sanitize to the same name.
C28_DistinctPaths ==
    save_pc = "returned" =>
       /\ \A i \in 1..Len(file_paths) : \A j \in 1..Len(file_paths) :
             i # j => file_paths[i] # file_paths[j]
       /\ \A i \in 1..Len(file_paths) : <<file_paths[i], i>> \in upload_dir

\* C30, as claimed: within one call of normalize_mp3_file_parallel two
\* different input positions get different output paths, so no worker writes
\* the file of a sibling.
C30_DistinctOutputs ==
    \A i \in 1..Len(futures) : \A j \in 1..Len(futures) :
       i # j => NormalizedPath(futures[i].args[1]) # NormalizedPath(futures[j].args[1])

\* C23: the archive step is the hard stop. A /merge request whose merge
\* produced no output file is answered with an error, never with 200 and an
\* archive; a request of which at least one group was merged is not turned
\* into an error by the groups and files that failed: create_zip can return
\* and the archive can be sent.
C23_HardStopAtArchive ==
    /\ (req_pc \in {"send", "responding", "finished"}
          /\ "smart_merge_mp3_files" \in Range(req_calls)
          /\ merged_count = 0) => status = "500"
    /\ status = "200" =>
          /\ merged_count >= 1
          /\ req_calls = <<"saving_files", "smart_merge_mp3_files", "create_zip">>
    /\ (req_pc = "zip" /\ merged_count >= 1) => ENABLED ArchiveMerged
    /\ req_pc = "send" => ENABLED SendArchive

\* C23, witness: of the three groups of a request one was merged; the request
\* has finished with 200.
C23_Witness ==
    /\ req_pc = "finished"
    /\ n_uploads = 3
    /\ count = 1
    /\ merged_count = 1
    /\ status = "200"

\* The calls for the key that returned True at a time in the interval
\* (t, t + window].
AdmittedIn(adm, key, t) ==
    { i \in 1..Len(adm[key]) : t < adm[key][i] /\ adm[key][i] <= t + window }

\* C21: after any sequence of calls of check, for every key the calls that
\* returned True within any interval of the length of the window (open at its
\* start) are at most max_req; a call that returns False records no timestamp;
\* a call for one key leaves the deque, and so the outcomes, of every other key
\* as they were.
C21_AtMostMaxReq ==
    [][ /\ \A key \in Keys : \A t \in (0 - MaxTime)..MaxTime :
              Cardinality(AdmittedIn(admitted', key, t)) <= max_req
        /\ \A key \in Keys : Len(bucket'[key]) <= max_req
        /\ clock' = clock =>
              /\ \A key \in Keys \ {last_key'} :
                    bucket'[key] = bucket[key] /\ admitted'[key] = admitted[key]
              /\ last_ret' = "False" =>
                    /\ admitted' = admitted
                    /\ Len(bucket'[last_key']) = max_req
                    /\ bucket'[last_key'] = Pruned(bucket[last_key'], clock - window)
              /\ last_ret' = "True" =>
                    admitted'[last_key'] = Append(admitted[last_key'], clock) ]_vars

\* C21, witness: with a window of 2 and at most 2 requests, one key was
\* admitted twice at time 0 and, its timestamps expired, twice at time 2, and
\* is now refused; the other key was admitted in between.
C21_Witness ==
    /\ window = 2
    /\ max_req = 2
    /\ admitted["t:x"] = <<0, 0, 2, 2>>
    /\ admitted["ip:a"] = <<1>>
    /\ last_key = "t:x"
    /\ last_ret = "False"
    /\ clock = 3

\* C29, as claimed: when threads call check() for one key at the same time,
\* over every interleaving of their steps the calls that return True within
\* one window are at most max_req and the key's deque never holds more than
\* max_req timestamps.
C29_ConcurrentLimit ==
    \A key \in Keys :
       /\ Len(bucket[key]) <= max_req
       /\ \A t \in (0 - MaxTime)..MaxTime :
             Cardinality(AdmittedIn(admitted, key, t)) <= max_req

\* The files of the request that a validation keeps, and the facts about the
\* request that decide a status code.
KeptFiles == FilterEmptyFiles(raw_files)

BadFilesOrCount ==
    \/ KeptFiles = << >>
    \/ form_count = << >>
    \/ form_count[1] <= 0
    \/ Len(KeptFiles) > max_files
    \/ form_count[1] > Len(KeptFiles)

IsSuccess ==
    /\ validation.files # << >>
    /\ validation.count # << >>
    /\ validation.error_response = << >>
    /\ validation.status_code = << >>

IsError ==
    /\ validation.files = << >>
    /\ validation.count = << >>
    /\ validation.error_response # << >>
    /\ validation.status_code # << >>

\* What a success result promises, for names that end in the given way.
SuccessBounds(EndsInMp3(_)) ==
    LET list == validation.files[1]
        cnt == validation.count[1]
    IN  /\ 1 <= cnt
        /\ cnt <= Len(list)
        /\ Len(list) <= max_files
        /\ \A i \in 1..Len(list) :
              /\ list[i].filename # << >>
              /\ EndsInMp3(list[i].filename)
              /\ 0 < list[i].size
              /\ list[i].size <= max_bytes

\* C22, as stated: a returned result is a success (no error, no status,
\* 1 <= count <= len(files) <= max_files, every name ending in ".mp3", every
\* size in (0, max_bytes]) or an error (no files, no count) whose status is 415
\* for a non-multipart request, 500 when ffmpeg is unavailable, 400 otherwise.
C22_AsStated ==
    valid_pc = "done" =>
        \/ /\ IsSuccess
           /\ SuccessBounds(LAMBDA name : name[Len(name)] = ".mp3")
        \/ /\ IsError
           /\ validation.status_code[1] =
                 IF ~multipart THEN "415"
                 ELSE IF ~ffmpeg_available THEN "500"
                 ELSE "400"

\* C22, amended: a returned result is a success or an error, never a mix. A
\* success has 1 <= count <= len(files) <= max_files, every name ending in
\* .mp3 in any letter case and every size in (0, max_bytes]. An error has status
\* 415 for a non-multipart request; otherwise 400 when the files or the count
\* are refused; otherwise 500 when ffmpeg is unavailable; otherwise 400.
C22_SuccessOrError ==
    valid_pc = "done" =>
        \/ /\ IsSuccess
           /\ multipart /\ ffmpeg_available /\ ~BadFilesOrCount
           /\ SuccessBounds(LAMBDA name : Lower(name[Len(name)]) = ".mp3")
        \/ /\ IsError
           /\ validation.status_code[1] =
                 IF ~multipart THEN "415"
                 ELSE IF BadFilesOrCount THEN "400"
                 ELSE IF ~ffmpeg_available THEN "500"
                 ELSE "400"

\* A success over two files, one of them named in upper case.
C22_Witness ==
    /\ valid_pc = "done"
    /\ IsSuccess
    /\ Len(validation.files[1]) = 2
    /\ validation.count[1] = 2
    /\ \E i \in 1..2 : validation.files[1][i].filename = <<"A", ".MP3">>

\* The tokens a file holds: its lines without the spaces around them, but for
\* the lines that are then empty and the lines that then start with "#".
TokensOfFile ==
    { Strip(file_lines[i]) : i \in { j \in 1..Len(file_lines) :
          /\ Strip(file_lines[j]) # << >>
          /\ Head(Strip(file_lines[j])) # "#" } }

\* C27: a reload_tokens of a manager with a token file either reads the file,
\* and then the allow-list is exactly the tokens of the file (no token that
\* left the file stays in it) and the recorded mtime is the file's; or fails to
\* read it, and then the allow-list and the recorded mtime are what they were,
\* and the call raises exactly when tokens are required.
C27_ReplaceOrKeep ==
    [][ (reload_outcome' # "" /\ token_file # "") =>
            IF file_state = "ok"
            THEN /\ allowed_tokens' = TokensOfFile
                 /\ \A t \in allowed_tokens \ TokensOfFile : t \notin allowed_tokens'
                 /\ tokens_mtime' = <<file_mtime>>
                 /\ reload_outcome' = "returned"
            ELSE /\ allowed_tokens' = allowed_tokens
                 /\ tokens_mtime' = tokens_mtime
                 /\ (reload_outcome' = "raised") <=> tokens_required ]_vars

\* A reload has read a rewritten file with a comment in it: the one token of
\* the file is the allow-list.
C27_Witness ==
    /\ reload_outcome = "returned"
    /\ token_file # ""
    /\ file_state = "ok"
    /\ tokens_mtime = <<2>>
    /\ file_lines = << <<Space, "#", "a">>, <<Space, "b", Space>> >>
    /\ allowed_tokens = { <<"b">> }


====
